---- MODULE Spec2Model ----
(***************************************************************************)
(* Model of tri.query (src/lib/tri/query/__init__.py): the Variable        *)
(* registry of a Query, the pyparsing grammar with its parse actions, the  *)
(* shunting-yard compilation of the parse result into a Q tree, and the    *)
(* request facade that formats form values into a query string.            *)
(*                                                                         *)
(* A query string is modelled as the sequence of its lexemes; whitespace   *)
(* between lexemes is insignificant to the grammar.  Q objects are         *)
(* modelled as the terms built by Q(...), &, | and ~.                      *)
(***************************************************************************)
EXTENDS Integers, Sequences, FiniteSets, TLC

\* ------------------------------------------------------------------------
\* Bounds of the model
\* ------------------------------------------------------------------------
MaxVars == 2        \* variables declared in one Query
MaxItems == 7       \* clauses, connectives and parentheses in one query

\* ------------------------------------------------------------------------
\* Module constants
\* ------------------------------------------------------------------------
PRECEDENCE == [and |-> 3, or |-> 2]

Q_OP_BY_OP ==
    (">" :> "gt") @@ ("=>" :> "gte") @@ (">=" :> "gte") @@ ("<" :> "lt") @@
    ("<=" :> "lte") @@ ("=<" :> "lte") @@ ("=" :> "iexact") @@
    (":" :> "icontains")

FREETEXT_SEARCH_NAME == "term"
ADVANCED_QUERY_PARAM == "query"

None == "<None>"
MISSING == "<MISSING>"

\* ------------------------------------------------------------------------
\* Python values
\* ------------------------------------------------------------------------
\* unicode.lower() on the strings that occur in the model
lower(s) ==
    CASE s = "Name" -> "name"
      [] s = "NULL" -> "null"
      [] s = "AND"  -> "and"
      [] s = "OR"   -> "or"
      [] OTHER      -> s

PyStr(s)   == [t |-> "str", v |-> s]            \* unicode from an identifier
PyInt(s)   == [t |-> "int", v |-> s]            \* int, by its decimal text
PyFloat(s) == [t |-> "float", v |-> s]
PyBool(s)  == [t |-> "bool", v |-> s]           \* "True" / "False"
PyDate(y, m, d) == [t |-> "date", y |-> y, m |-> m, d |-> d]
PyNone     == [t |-> "None"]
F(attr)    == [t |-> "F", v |-> attr]           \* django.db.models.F

\* class StringValue(unicode): the text between the surrounding quotes
StringValue(s) == [t |-> "StringValue", v |-> s]

isinstance_basestring(x) == x.t \in {"str", "StringValue"}

\* ------------------------------------------------------------------------
\* django.db.models.Q as a term algebra
\* ------------------------------------------------------------------------
Q_empty == [q |-> "Q()"]
Q_kw(key, value) == [q |-> "Q", key |-> key, value |-> value]
Q_and(left, right) == [q |-> "and", left |-> left, right |-> right]
Q_or(left, right) == [q |-> "or", left |-> left, right |-> right]
Q_not(r) == [q |-> "not", arg |-> r]

\* ------------------------------------------------------------------------
\* Outcomes of a call: a returned value, None, or a raised exception
\* ------------------------------------------------------------------------
NoValue == [t |-> "-"]
Return(q) == [r |-> "q", q |-> q]
ReturnNone == [r |-> "None"]
Raise(exc, msg, value, name) ==
    [r |-> "raise", exc |-> exc, msg |-> msg, value |-> value, name |-> name]

\* ------------------------------------------------------------------------
\* Variable
\* ------------------------------------------------------------------------
\* VariableBase: the NamedStruct fields and their defaults.  op_to_q_op and
\* value_to_q hold the name of the function the field is bound to; model is
\* the set of names found in the rows of variable.model.objects.
VariableBase ==
    [name |-> "", attr |-> MISSING, gui |-> [show |-> FALSE], gui_op |-> "=",
     op_to_q_op |-> "Q_OP_BY_OP", value_to_q |-> "default_value_to_q",
     freetext |-> FALSE, model |-> {}, value_to_q_lookup |-> ""]

\* Variable.__init__: attr defaults to the name
Variable(kwargs) ==
    IF kwargs.name # "" /\ kwargs.attr = MISSING
    THEN [kwargs EXCEPT !.attr = kwargs.name]
    ELSE kwargs

Variable_case_sensitive(kwargs) ==
    Variable([kwargs EXCEPT !.op_to_q_op = "case_sensitive"])

Variable_choice_queryset(kwargs) ==
    Variable([kwargs EXCEPT !.op_to_q_op = "exact",
                            !.value_to_q_lookup = "name",
                            !.value_to_q = "choice_queryset_value_to_q"])

Variable_boolean(kwargs) ==
    Variable([kwargs EXCEPT !.value_to_q = "boolean_value_to_q"])

\* variable.op_to_q_op(op): the default lambda, the one of case_sensitive
\* and the one of choice_queryset
op_to_q_op(variable, op) ==
    CASE variable.op_to_q_op = "case_sensitive" ->
            IF op = "=" THEN "exact"
            ELSE IF op = ":" THEN "contains"
            ELSE Q_OP_BY_OP[op]
      [] variable.op_to_q_op = "exact" -> "exact"
      [] OTHER -> Q_OP_BY_OP[op]

\* the operator without its leading '!'
base_op(op) == IF op = "!=" THEN "=" ELSE IF op = "!:" THEN ":" ELSE op

is_null_exact_case(value_string_or_f) ==
    /\ isinstance_basestring(value_string_or_f)
    /\ value_string_or_f.v = "null"

is_null(value_string_or_f) ==
    /\ isinstance_basestring(value_string_or_f)
    /\ lower(value_string_or_f.v) = "null"

negate_never(negated, r) == r

negate_if(negated, r) == IF negated THEN Q_not(r) ELSE r

default_value_to_q(variable, op, value_string_or_f) ==
    IF variable.attr = None THEN Return(Q_empty)
    ELSE Return(negate_if(op \in {"!=", "!:"},
            IF is_null(value_string_or_f)
            THEN Q_kw(<<variable.attr>>, PyNone)
            ELSE Q_kw(<<variable.attr, op_to_q_op(variable, base_op(op))>>,
                      value_string_or_f)))

choice_queryset_value_to_q(variable, op, value_string_or_f) ==
    IF op # "=" THEN Raise("AssertionError", "op == '='", NoValue, "")
    ELSE IF variable.attr = None THEN Return(Q_empty)
    ELSE IF ~(isinstance_basestring(value_string_or_f)
              /\ value_string_or_f.v \in variable.model)
         THEN ReturnNone        \* ObjectDoesNotExist
         ELSE Return(Q_kw(<<variable.attr, "pk">>,
                          [t |-> "pk", v |-> value_string_or_f.v]))

\* tri.form.bool_parse(string_value); NoValue when it raises ValueError
bool_parse(string_value) ==
    IF lower(string_value) \in {"1", "true", "t", "yes", "y", "on"}
    THEN PyBool("True")
    ELSE IF lower(string_value) \in {"0", "false", "f", "no", "n", "off"}
    THEN PyBool("False")
    ELSE NoValue

\* Variable.boolean's value_to_q
boolean_value_to_q(variable, op, value_string_or_f) ==
    IF isinstance_basestring(value_string_or_f)
       /\ bool_parse(value_string_or_f.v) = NoValue
    THEN Raise("ValueError", "is not a valid boolean value",
               value_string_or_f, "")
    ELSE default_value_to_q(variable, op,
            IF isinstance_basestring(value_string_or_f)
            THEN bool_parse(value_string_or_f.v)
            ELSE value_string_or_f)

\* variable.value_to_q(variable=variable, op=op, value_string_or_f=...)
value_to_q(variable, op, value_string_or_f) ==
    CASE variable.value_to_q = "choice_queryset_value_to_q" ->
            choice_queryset_value_to_q(variable, op, value_string_or_f)
      [] variable.value_to_q = "boolean_value_to_q" ->
            boolean_value_to_q(variable, op, value_string_or_f)
      [] OTHER -> default_value_to_q(variable, op, value_string_or_f)

\* ------------------------------------------------------------------------
\* Query.__init__
\* ------------------------------------------------------------------------
\* {variable.name: variable for variable in self.variables}: the keys are
\* the names as declared, and a later variable replaces an earlier one of
\* the same name.
variable_by_name_of(vs) ==
    [n \in {vs[i].name : i \in 1..Len(vs)} |->
        LET last == CHOOSE i \in 1..Len(vs) :
                        /\ vs[i].name = n
                        /\ \A j \in 1..Len(vs) : vs[j].name = n => j <= i
        IN vs[last]]

\* ------------------------------------------------------------------------
\* Lexemes of a query string
\* ------------------------------------------------------------------------
LParen == [tok |-> "("]
RParen == [tok |-> ")"]
Word(text) == [tok |-> "word", text |-> text]     \* identifier or keyword
Op(text) == [tok |-> "op", text |-> text]
Quoted(text) == [tok |-> "quoted", text |-> text] \* "text"
IntNum(text, exp) == [tok |-> "int", text |-> text, exp |-> exp]
RealNum(text) == [tok |-> "real", text |-> text]
DateStr(y, m, d) == [tok |-> "date", y |-> y, m |-> m, d |-> d]

\* datetime.date(y, m, d) accepts the triple
IsLeap(y) == (y % 4 = 0 /\ y % 100 # 0) \/ y % 400 = 0
DaysInMonth(y, m) ==
    IF m = 2 THEN (IF IsLeap(y) THEN 29 ELSE 28)
    ELSE IF m \in {4, 6, 9, 11} THEN 30 ELSE 31
date_ok(y, m, d) ==
    /\ y \in 1..9999
    /\ m \in 1..12
    /\ d \in 1..DaysInMonth(y, m)

\* Results of a pyparsing element at a position: matched tokens and the next
\* position, a ParseException, or an exception raised by a parse action
POk(toks, next) == [p |-> "ok", toks |-> toks, next |-> next]
PFail == [p |-> "fail"]
PRaise(e) == [p |-> "raise", e |-> e]

\* The items of a ParseResults
QTok(q) == [n |-> "q", q |-> q]
StrTok(str) == [n |-> "str", s |-> str]
Group(items) == [n |-> "group", items |-> items]

\* value_string = date_str | real_num | int_num | variable_name | quoted,
\* with the parse actions of date_str, real_num, int_num and the quoted
\* string
value_string(s, i) ==
    IF i > Len(s) THEN PFail
    ELSE LET x == s[i] IN
      CASE x.tok = "date" ->
             IF date_ok(x.y, x.m, x.d)
             THEN POk(<<PyDate(x.y, x.m, x.d)>>, i + 1)
             ELSE PRaise(Raise("ValueError", "date", NoValue, ""))
        [] x.tok = "real" -> POk(<<PyFloat(x.text)>>, i + 1)
        [] x.tok = "int" ->
             IF x.exp = ""
             THEN POk(<<PyInt(x.text)>>, i + 1)
             ELSE PRaise(Raise("ValueError", "invalid literal for int()",
                               NoValue, ""))
        [] x.tok = "word" -> POk(<<PyStr(x.text)>>, i + 1)
        [] x.tok = "quoted" -> POk(<<StringValue(x.text)>>, i + 1)
        [] OTHER -> PFail

\* ------------------------------------------------------------------------
\* The parse actions of Query
\* ------------------------------------------------------------------------
\* self.variable_by_name.get(name.lower()) finds a variable
lookup_hit(self, name) == lower(name) \in DOMAIN self.variable_by_name

\* the value is taken as a reference to another variable
is_variable_reference(self, value) ==
    /\ isinstance_basestring(value)
    /\ value.t # "StringValue"
    /\ lower(value.v) \in DOMAIN self.variable_by_name

none_as_match_everything(result, value_string_or_f, variable) ==
    IF result.r = "None" THEN Return(Q_empty) ELSE result

\* a None result of value_to_q is raised as a QueryException
raise_if_none(result, value_string_or_f, variable) ==
    IF result.r = "None"
    THEN Raise("QueryException", "Unknown value for variable",
               value_string_or_f, variable.name)
    ELSE result

binary_op_as_q_found(variable, op, value_string_or_f) ==
    raise_if_none(value_to_q(variable, op, value_string_or_f),
                  value_string_or_f, variable)

binary_op_as_q(self, variable_name, op, value_string_or_variable_name) ==
    IF lookup_hit(self, variable_name)
    THEN binary_op_as_q_found(
            self.variable_by_name[lower(variable_name)], op,
            IF is_variable_reference(self, value_string_or_variable_name)
            THEN F(self.variable_by_name[
                       lower(value_string_or_variable_name.v)].attr)
            ELSE value_string_or_variable_name)
    ELSE Raise("QueryException", "Unknown variable", NoValue, variable_name)

\* the variables freetext_as_q builds a Q for
freetext_variables(self) ==
    SelectSeq(self.variables, LAMBDA v : v.freetext)

RECURSIVE reduce_or(_)
reduce_or(qs) ==
    IF Len(qs) = 1 THEN qs[1]
    ELSE Q_or(reduce_or(SubSeq(qs, 1, Len(qs) - 1)), qs[Len(qs)])

freetext_qs(vs, token) ==
    IF vs = <<>>
    THEN Raise("AssertionError", "any(v.freetext for v in self.variables)",
               NoValue, "")
    ELSE IF \E i \in 1..Len(vs) : vs[i].attr = None
    THEN Raise("TypeError", "NoneType + unicode", NoValue, "")
    ELSE Return(reduce_or(
            [i \in 1..Len(vs) |->
                Q_kw(<<vs[i].attr, op_to_q_op(vs[i], ":")>>, PyStr(token))]))

freetext_as_q(self, token) == freetext_qs(freetext_variables(self), token)

\* ------------------------------------------------------------------------
\* Query._grammar
\* ------------------------------------------------------------------------
is_keyword(x) == x.tok = "word" /\ lower(x.text) \in {"and", "or"}

\* the tokens a statement's parse action leaves, or what it raised
action_result(r, next) ==
    IF r.r = "raise" THEN PRaise(r) ELSE POk(<<QTok(r.q)>>, next)

binary_operator_statement_value(self, s, i, v) ==
    IF v.p # "ok" THEN v
    ELSE action_result(
            binary_op_as_q(self, s[i].text, s[i + 1].text, v.toks[1]), i + 3)

binary_operator_statement(self, s, i) ==
    IF i + 1 <= Len(s) /\ s[i].tok = "word" /\ s[i + 1].tok = "op"
    THEN binary_operator_statement_value(self, s, i, value_string(s, i + 2))
    ELSE PFail

free_text_statement(self, s, i) ==
    IF i <= Len(s) /\ s[i].tok = "quoted"
    THEN action_result(freetext_as_q(self, s[i].text), i + 1)
    ELSE PFail

\* binary_operator_statement | free_text_statement
first_match(b, alternative) == IF b.p # "fail" THEN b ELSE alternative

operator_statement(self, s, i) ==
    first_match(binary_operator_statement(self, s, i),
                free_text_statement(self, s, i))

RECURSIVE where_condition(_, _, _)
RECURSIVE where_expression(_, _, _)
RECURSIVE zero_or_more(_, _, _, _)

\* '(' + where_expression + ')', e the result of where_expression
parenthesized(s, e) ==
    IF e.p # "ok" THEN e
    ELSE IF e.next <= Len(s) /\ s[e.next].tok = ")"
    THEN POk(<<Group(<<StrTok("(")>> \o e.toks \o <<StrTok(")")>>)>>,
             e.next + 1)
    ELSE PFail

\* Group(operator_statement | ('(' + where_expression + ')')), o the result
\* of operator_statement and paren that of the parenthesized alternative
grouped(o, paren) ==
    IF o.p = "raise" THEN o
    ELSE IF o.p = "ok" THEN POk(<<Group(o.toks)>>, o.next)
    ELSE paren

where_condition(self, s, i) ==
    grouped(operator_statement(self, s, i),
            IF i <= Len(s) /\ s[i].tok = "("
            THEN parenthesized(s, where_expression(self, s, i + 1))
            ELSE PFail)

\* where_condition + ZeroOrMore(...), c the result of where_condition
where_expression_rest(self, s, c) ==
    IF c.p # "ok" THEN c ELSE zero_or_more(self, s, c.next, c.toks)

where_expression(self, s, i) ==
    where_expression_rest(self, s, where_condition(self, s, i))

\* one round of ZeroOrMore, e the result of where_expression after the keyword
zero_or_more_step(self, s, j, acc, e) ==
    IF e.p = "raise" THEN e
    ELSE IF e.p = "fail" THEN POk(acc, j)
    ELSE zero_or_more(self, s, e.next,
                      acc \o <<StrTok(lower(s[j].text))>> \o e.toks)

\* ZeroOrMore((and_ | or_) + where_expression)
zero_or_more(self, s, j, acc) ==
    IF j <= Len(s) /\ is_keyword(s[j])
    THEN zero_or_more_step(self, s, j, acc, where_expression(self, s, j + 1))
    ELSE POk(acc, j)

\* parseAll=True, e the result of where_expression
parse_all(s, e) ==
    IF e.p # "ok" THEN e
    ELSE IF e.next # Len(s) + 1 THEN PFail
    ELSE POk(<<Group(e.toks)>>, e.next)

\* parser.parseString(query_string, parseAll=True) of
\* query_statement = Group(where_expression)
parseString(self, s) == parse_all(s, where_expression(self, s, 1))

\* ------------------------------------------------------------------------
\* Query.compile
\* ------------------------------------------------------------------------
pops_operator_strict(p1, p2) == p1 < p2

\* the operator on top of the stack is moved to the output before an
\* operator of precedence p1 is pushed
pops_operator(p1, p2) == p1 <= p2

RECURSIVE pop_while(_, _, _)
pop_while(p1, result_q, stack) ==
    IF stack # <<>> /\ pops_operator(p1, stack[Len(stack)].p2)
    THEN pop_while(p1, Append(result_q, StrTok(stack[Len(stack)].t2)),
                   SubSeq(stack, 1, Len(stack) - 1))
    ELSE [result_q |-> result_q, stack |-> stack]

RECURSIVE drain(_, _)
drain(result_q, stack) ==
    IF stack = <<>> THEN result_q
    ELSE drain(Append(result_q, StrTok(stack[Len(stack)].t2)),
               SubSeq(stack, 1, Len(stack) - 1))

RECURSIVE to_rpn_loop(_, _, _, _)
to_rpn_loop(tokens, i, result_q, stack) ==
    IF i > Len(tokens) THEN drain(result_q, stack)
    ELSE LET token == tokens[i] IN
         IF token.n = "q"
         THEN to_rpn_loop(tokens, i + 1, Append(result_q, token), stack)
         ELSE IF token.s \in DOMAIN PRECEDENCE
         THEN LET p1 == PRECEDENCE[token.s]
                  st == pop_while(p1, result_q, stack)
              IN to_rpn_loop(tokens, i + 1, st.result_q,
                             Append(st.stack, [t2 |-> token.s, p2 |-> p1]))
         ELSE to_rpn_loop(tokens, i + 1, result_q, stack)

to_rpn(tokens) ==
    IF Len(tokens) = 1 THEN tokens
    ELSE to_rpn_loop(tokens, 1, <<>>, <<>>)

\* left & right, left | right of the two operands popped from the stack
combine(op, left, right) ==
    IF op = "and" THEN Q_and(left, right) ELSE Q_or(left, right)

RECURSIVE rpn_to_q_loop(_, _, _)
rpn_to_q_loop(tokens, i, stack) ==
    IF i > Len(tokens) THEN stack
    ELSE LET each == tokens[i] IN
         IF each.n = "q"
         THEN rpn_to_q_loop(tokens, i + 1, Append(stack, each.q))
         ELSE LET right == stack[Len(stack)]
                  left == stack[Len(stack) - 1]
              IN rpn_to_q_loop(tokens, i + 1,
                     Append(SubSeq(stack, 1, Len(stack) - 2),
                            combine(each.s, left, right)))

rpn_to_q(tokens) == rpn_to_q_loop(tokens, 1, <<>>)[1]

RECURSIVE compile(_)
RECURSIVE compile_items(_, _)
compile_items(tokens, i) ==
    IF i > Len(tokens) THEN <<>>
    ELSE LET token == tokens[i]
             rest == compile_items(tokens, i + 1)
         IN IF token.n = "group" THEN <<QTok(compile(token.items))>> \o rest
            ELSE IF token.n = "q" THEN <<token>> \o rest
            ELSE IF token.s \in {"and", "or"} THEN <<token>> \o rest
            ELSE rest

compile(tokens) == rpn_to_q(to_rpn(compile_items(tokens, 1)))

\* ------------------------------------------------------------------------
\* Query.parse
\* ------------------------------------------------------------------------
\* A query string: its lexemes, and whether white space surrounds them
QueryString(pad, lex) == [pad |-> pad, lex |-> lex]
EmptyString == QueryString(FALSE, <<>>)
strip(query_string) == QueryString(FALSE, query_string.lex)

\* the try/except around parseString, and compile
parse_tokens(tokens) ==
    IF tokens.p = "fail"
    THEN Raise("QueryException", "Invalid syntax for query", NoValue, "")
    ELSE IF tokens.p = "raise" THEN tokens.e
    ELSE Return(compile(tokens.toks))

parse(self, query_string) ==
    IF strip(query_string) = EmptyString THEN Return(Q_empty)
    ELSE parse_tokens(parseString(self, strip(query_string).lex))

\* ------------------------------------------------------------------------
\* Query.form, Query.request_to_query_string, Query.request_to_q
\* ------------------------------------------------------------------------
\* A request: the advanced query parameter (NoParam when the request has
\* none), the values the form's fields have after validation, the value of
\* the free-text field and whether the form is valid
NoParam == [absent |-> TRUE]

request_data_get_query(request) ==
    IF request.query = NoParam THEN EmptyString ELSE request.query

\* the names of the form's fields other than the free-text field, in order
form_fields(self) ==
    LET shown == SelectSeq(self.variables, LAMBDA v : v.gui.show)
    IN [i \in 1..Len(shown) |-> shown[i].name]

has_freetext_field(self) ==
    \E i \in 1..Len(self.variables) : self.variables[i].freetext

value_to_query_string_value_string(v) ==
    IF v.t = "bool"
    THEN (IF v.v = "True" THEN IntNum("1", "") ELSE IntNum("0", ""))
    ELSE IF v.t = "int" THEN IntNum(v.v, "")
    ELSE IF v.t = "float" THEN RealNum(v.v)
    ELSE Quoted(v.v)

is_set(v) == v # PyNone /\ v # PyStr("")

\* form.is_valid()
form_always_valid(request) == TRUE

form_is_valid(request) == request.valid

RECURSIVE join(_, _)
join(sep, parts) ==
    IF parts = <<>> THEN <<>>
    ELSE IF Len(parts) = 1 THEN parts[1]
    ELSE parts[1] \o sep \o join(sep, Tail(parts))

request_to_query_string(self, request) ==
    IF strip(request_data_get_query(request)) # EmptyString
    THEN request.query
    ELSE IF form_is_valid(request)
    THEN LET names == SelectSeq(form_fields(self),
                        LAMBDA n : n # FREETEXT_SEARCH_NAME
                                   /\ is_set(request.values[n]))
             result == [i \in 1..Len(names) |->
                          <<Word(names[i]),
                            Op(self.variable_by_name[names[i]].gui_op),
                            value_to_query_string_value_string(
                                request.values[names[i]])>>]
             fts == freetext_variables(self)
             freetext == request.term
             clause == <<LParen>>
                       \o join(<<Word("or")>>,
                               [i \in 1..Len(fts) |->
                                  <<Word(fts[i].name), Op(":"),
                                    Quoted(freetext.v)>>])
                       \o <<RParen>>
         IN QueryString(FALSE,
              join(<<Word("and")>>,
                   IF has_freetext_field(self) /\ is_set(freetext)
                   THEN Append(result, clause) ELSE result))
    ELSE EmptyString

request_to_q(self, request) ==
    parse(self, request_to_query_string(self, request))

\* ------------------------------------------------------------------------
\* Inputs: declared variables, query strings, requests
\* ------------------------------------------------------------------------
\* The variables a Query is declared from, in creation order
Declared ==
    << Variable([VariableBase EXCEPT !.name = "price", !.gui = [show |-> TRUE]]),
       Variable([VariableBase EXCEPT !.name = "Name"]),
       Variable([VariableBase EXCEPT !.name = "name", !.freetext = TRUE,
                                     !.gui = [show |-> TRUE], !.gui_op = ":"]),
       Variable([VariableBase EXCEPT !.name = "note", !.attr = None,
                                     !.freetext = TRUE]),
       Variable_choice_queryset([VariableBase EXCEPT !.name = "make",
                                                     !.model = {"volvo"}]),
       Variable([VariableBase EXCEPT !.name = "make", !.attr = "brand"]),
       Variable_case_sensitive([VariableBase EXCEPT !.name = "code",
                                                    !.freetext = TRUE]),
       Variable_boolean([VariableBase EXCEPT !.name = "active",
                                             !.gui = [show |-> TRUE]]) >>

\* the members of an index set in increasing order
RECURSIVE Sorted(_)
Sorted(I) ==
    IF I = {} THEN <<>>
    ELSE LET m == CHOOSE x \in I : \A y \in I : x <= y
         IN <<m>> \o Sorted(I \ {m})

VariableLists ==
    { [k \in 1..Cardinality(I) |-> Declared[Sorted(I)[k]]] :
        I \in { J \in SUBSET (1..Len(Declared)) : Cardinality(J) <= MaxVars } }

Operators == {">", ">=", "=>", "<", "<=", "=<", "=", ":", "!=", "!:"}

NameLexemes == {"price", "Name", "name", "note", "make", "code", "active"}

\* the values tried with every operator, and those tried with '=' alone
ValueLexemes ==
    { Word("null"), Word("NULL"), Word("volvo"), Word("price"), Word("true"),
      Quoted("null"), IntNum("5", "") }

OtherValueLexemes ==
    { Word("saab"), Quoted("price"), IntNum("1", "E5"), RealNum("1.5"),
      DateStr(2015, 1, 31), DateStr(2015, 13, 45) }

Statements ==
    { <<Word(n), Op(o), v>> : n \in NameLexemes, o \in Operators,
                              v \in ValueLexemes }
    \cup { <<Word(n), Op("="), v>> : n \in NameLexemes,
                                     v \in OtherValueLexemes }

FreeTexts == { <<Quoted("volvo")>> }

\* the clauses that compound queries are made of
Leaves ==
    { <<Word("price"), Op(">"), IntNum("5", "")>>,
      <<Word("make"), Op("="), Word("saab")>> }

Connectives == { Word("and"), Word("or") }

\* well-formed queries of exactly n items (clauses, connectives, parentheses)
RECURSIVE Terms(_)
RECURSIVE Exprs(_)
Terms(n) ==
    IF n = 1 THEN Leaves
    ELSE IF n >= 3 THEN { <<LParen>> \o e \o <<RParen>> : e \in Exprs(n - 2) }
    ELSE {}
Exprs(n) ==
    Terms(n) \cup
    UNION { { t \o <<c>> \o e : t \in Terms(k), c \in Connectives,
                                  e \in Exprs(n - 1 - k) } : k \in 1..(n - 2) }

WellFormed == UNION { Exprs(n) : n \in 1..MaxItems }

Malformed ==
    { <<Word("price"), Op("=")>>,
      <<Word("price"), Word("price")>>,
      <<Word("price"), Op("="), IntNum("5", ""), Word("and")>>,
      <<LParen, Word("price"), Op("="), IntNum("5", "")>>,
      <<Word("price"), Op("="), IntNum("5", ""), RParen>>,
      <<LParen, RParen>>,
      <<LParen, Word("bogus"), Op("="), IntNum("5", "")>>,
      <<Word("price"), Op("="), DateStr(2015, 13, 45), RParen>> }

QueryStrings ==
    { QueryString(FALSE, q) : q \in WellFormed \cup Statements \cup FreeTexts
                                   \cup Malformed }
    \cup { EmptyString, QueryString(TRUE, <<>>),
           QueryString(TRUE, <<Quoted("volvo")>>) }

FieldValues ==
    { PyNone, PyStr(""), PyStr("null"), PyInt("5"), PyBool("True") }

TermValues == { PyNone, PyStr("volvo"), PyStr("null") }

AdvancedValues ==
    { NoParam, QueryString(TRUE, <<>>),
      QueryString(FALSE, <<Word("price"), Op("<"), IntNum("5", "")>>),
      QueryString(TRUE, <<Word("price"), Op("<"), IntNum("5", "")>>) }

Range(f) == { f[x] : x \in DOMAIN f }

\* a valid form is submitted with or without a blank advanced query; an
\* invalid form, or one next to an advanced query, is submitted with or
\* without values in its fields and its free-text field
Requests(self) ==
    [ query : { NoParam, QueryString(TRUE, <<>>) },
      valid : {TRUE},
      values : [Range(form_fields(self)) -> FieldValues],
      term : IF has_freetext_field(self) THEN TermValues ELSE {PyNone} ]
    \cup
    [ query : AdvancedValues,
      valid : BOOLEAN,
      values : [Range(form_fields(self)) -> {PyNone, PyInt("5")}],
      term : IF has_freetext_field(self) THEN {PyNone, PyStr("volvo")}
             ELSE {PyNone} ]

\* ------------------------------------------------------------------------
\* The state machine: a Query is declared, then serves one call at a time
\* ------------------------------------------------------------------------
VARIABLES
    variables,          \* Query.variables
    variable_by_name,   \* Query.variable_by_name
    op,                 \* the call that produced result
    query_string,       \* the query string parsed or returned by the call
    request,            \* the request of the call
    result              \* what the call returned or raised

vars == <<variables, variable_by_name, op, query_string, request, result>>

Self == [variables |-> variables, variable_by_name |-> variable_by_name]

NoRequest == [none |-> TRUE]
NoResult == [r |-> "-"]

\* the class attributes: variables = [], variable_by_name = {}
Init ==
    /\ variables = <<>>
    /\ variable_by_name = <<>>
    /\ op = "class"
    /\ query_string = EmptyString
    /\ request = NoRequest
    /\ result = NoResult

\* Query.__init__(variables)
Query_init(vs) ==
    /\ op = "class"
    /\ variables' = vs
    /\ variable_by_name' = variable_by_name_of(vs)
    /\ op' = "__init__"
    /\ result' = [r |-> "constructed"]
    /\ UNCHANGED <<query_string, request>>

Idle == op = "__init__"

Parse(q) ==
    /\ Idle
    /\ op' = "parse"
    /\ query_string' = q
    /\ result' = parse(Self, q)
    /\ UNCHANGED <<variables, variable_by_name, request>>

RequestToQueryString(req) ==
    /\ Idle
    /\ op' = "request_to_query_string"
    /\ request' = req
    /\ query_string' = request_to_query_string(Self, req)
    /\ result' = [r |-> "str"]
    /\ UNCHANGED <<variables, variable_by_name>>

RequestToQ(req) ==
    /\ Idle
    /\ op' = "request_to_q"
    /\ request' = req
    /\ query_string' = request_to_query_string(Self, req)
    /\ result' = request_to_q(Self, req)
    /\ UNCHANGED <<variables, variable_by_name>>

\* the caller drops the result; the Query keeps nothing of a call
Discard ==
    /\ op \in {"parse", "request_to_query_string", "request_to_q"}
    /\ op' = "__init__"
    /\ query_string' = EmptyString
    /\ request' = NoRequest
    /\ result' = [r |-> "constructed"]
    /\ UNCHANGED <<variables, variable_by_name>>

Next ==
    \/ \E vs \in VariableLists : Query_init(vs)
    \/ \E q \in QueryStrings : Parse(q)
    \/ Idle /\ \E req \in Requests(Self) : RequestToQueryString(req)
    \/ Idle /\ \E req \in Requests(Self) : RequestToQ(req)
    \/ Discard

Spec == Init /\ [][Next]_vars

\* ------------------------------------------------------------------------
\* Reference evaluation of a well-formed query
\* ------------------------------------------------------------------------
\* the number of parentheses open before position i
Depth(s, i) ==
    Cardinality({ j \in 1..(i - 1) : s[j].tok = "(" })
    - Cardinality({ j \in 1..(i - 1) : s[j].tok = ")" })

\* the positions of the connective kw outside every parenthesis
TopLevel(s, kw) ==
    { i \in 1..Len(s) : /\ s[i].tok = "word"
                        /\ lower(s[i].text) = kw
                        /\ Depth(s, i) = 0
                        /\ i > 1
                        /\ s[i - 1].tok # "op" }

Max(S) == CHOOSE x \in S : \A y \in S : y <= x

\* the clauses of s, each by the position of its first lexeme
ClauseStarts(s) ==
    { i \in 1..Len(s) : i + 1 <= Len(s) /\ s[i].tok = "word"
                                        /\ s[i + 1].tok = "op" }

AllLeavesOk(self, s) ==
    \A i \in ClauseStarts(s) : binary_operator_statement(self, s, i).p = "ok"

RECURSIVE RefOr(_, _)
RECURSIVE RefAnd(_, _)
RECURSIVE RefAtom(_, _)
\* 'or' binds loosest and associates to the left
RefOr(self, s) ==
    IF TopLevel(s, "or") = {} THEN RefAnd(self, s)
    ELSE LET k == Max(TopLevel(s, "or"))
         IN Q_or(RefOr(self, SubSeq(s, 1, k - 1)),
                 RefAnd(self, SubSeq(s, k + 1, Len(s))))
RefAnd(self, s) ==
    IF TopLevel(s, "and") = {} THEN RefAtom(self, s)
    ELSE LET k == Max(TopLevel(s, "and"))
         IN Q_and(RefAnd(self, SubSeq(s, 1, k - 1)),
                  RefAtom(self, SubSeq(s, k + 1, Len(s))))
\* a parenthesized group is reduced to one predicate; a clause is a leaf
RefAtom(self, s) ==
    IF s[1].tok = "(" THEN RefOr(self, SubSeq(s, 2, Len(s) - 1))
    ELSE binary_operator_statement(self, s, 1).toks[1].q

\* C1: for a well-formed query of leaf clauses, and/or and balanced
\* parentheses whose clauses all compile, Query.parse returns the predicate
\* of the reference evaluation: groups reduced first, 'and' tighter than
\* 'or', equal precedence left to right, operands in source order.
C1_CompileMatchesReference ==
    (op = "parse" /\ query_string.lex \in WellFormed
        /\ AllLeavesOk(Self, query_string.lex))
    => result = Return(RefOr(Self, query_string.lex))

\* '(a or b) and c' compiled, a and b distinct clauses
C1_Witness ==
    /\ op = "parse"
    /\ Len(query_string.lex) = 13
    /\ query_string.lex[1] = LParen
    /\ query_string.lex[9] = RParen
    /\ query_string.lex[5] = Word("or")
    /\ query_string.lex[10] = Word("and")
    /\ result.r = "q"
    /\ result.q.q = "and"
    /\ result.q.left.q = "or"
    /\ result.q.left.left # result.q.left.right

\* ------------------------------------------------------------------------
\* A parsed query that is one binary statement
\* ------------------------------------------------------------------------
IsStatement == op = "parse" /\ query_string.lex \in Statements
StmtName == query_string.lex[1].text
StmtOp == query_string.lex[2].text
StmtValue == query_string.lex[3]
StmtVariable == variable_by_name[lower(StmtName)]
StmtWith(o) == QueryString(FALSE, <<Word(StmtName), Op(o), StmtValue>>)

DeclaredUpToCase(name) ==
    \E i \in 1..Len(variables) : lower(variables[i].name) = lower(name)

UnknownVariable(res) ==
    res.r = "raise" /\ res.exc = "QueryException"
                    /\ res.msg = "Unknown variable"

UnknownValue(res) ==
    res.r = "raise" /\ res.exc = "QueryException"
                    /\ res.msg = "Unknown value for variable"

\* C2: a binary statement whose identifier equals a declared field's name up
\* to letter case, whatever case the name was declared in, never fails with
\* the unknown-field error.
C2_LookupIgnoresCase ==
    (IsStatement /\ DeclaredUpToCase(StmtName)) => ~UnknownVariable(result)

\* ------------------------------------------------------------------------
\* null
\* ------------------------------------------------------------------------
IsNullWord(x) == x.tok = "word" /\ lower(x.text) = "null"

IsNegatedStatement ==
    IsStatement /\ lookup_hit(Self, StmtName) /\ StmtOp \in {"!=", "!:"}

BaseResult == parse(Self, StmtWith(IF StmtOp = "!=" THEN "=" ELSE ":"))

\* C4 as stated: for every registered field of every kind and every value,
\* 'f != v' compiles to NOT(compile('f = v')) and 'f !: v' to
\* NOT(compile('f : v')).
C4_NegationIsComplement ==
    IsNegatedStatement
    => (BaseResult.r = "q" /\ result = Return(Q_not(BaseResult.q)))

\* C4 amended: for a registered field that has an attribute path and is of
\* the default, case-sensitive or boolean kind, and every value for which
\* 'f = v' (resp. 'f : v') compiles, 'f != v' (resp. 'f !: v') compiles to
\* its negation.
C4_NegationWithAttribute ==
    (IsNegatedStatement
        /\ StmtVariable.attr # None
        /\ StmtVariable.value_to_q # "choice_queryset_value_to_q"
        /\ BaseResult.r = "q")
    => result = Return(Q_not(BaseResult.q))

\* 'code != volvo' on a case-sensitive field compiled to NOT(code exact)
C4_Witness ==
    /\ IsStatement
    /\ StmtName = "code" /\ StmtOp = "!=" /\ StmtValue = Word("volvo")
    /\ result = Return(Q_not(Q_kw(<<"code", "exact">>, PyStr("volvo"))))

\* ------------------------------------------------------------------------
\* Unresolved values
\* ------------------------------------------------------------------------
\* the value of the clause at i as binary_op_as_q hands it to value_to_q
ClauseValue(s, i) ==
    IF is_variable_reference(Self, value_string(s, i + 2).toks[1])
    THEN F(variable_by_name[lower(value_string(s, i + 2).toks[1].v)].attr)
    ELSE value_string(s, i + 2).toks[1]

\* value_to_q returns None for the clause at i
NoneClause(s, i) ==
    /\ lookup_hit(Self, s[i].text)
    /\ value_string(s, i + 2).p = "ok"
    /\ value_to_q(variable_by_name[lower(s[i].text)], s[i + 1].text,
                  ClauseValue(s, i)).r = "None"

\* C5: when value_to_q returns None for a clause of a query whose other
\* clauses compile (at top level, inside parentheses, next to and/or),
\* Query.parse fails with the unknown-value error naming the value and the
\* field of such a clause; it never returns a predicate.
C5_NoneIsRaised ==
    (op = "parse" /\ query_string.lex \in WellFormed \cup Statements
        /\ (\E i \in ClauseStarts(query_string.lex) :
                NoneClause(query_string.lex, i))
        /\ (\A i \in ClauseStarts(query_string.lex) :
                \/ NoneClause(query_string.lex, i)
                \/ binary_operator_statement(Self, query_string.lex, i).p
                   = "ok"))
    => /\ UnknownValue(result)
       /\ \E i \in ClauseStarts(query_string.lex) :
            /\ NoneClause(query_string.lex, i)
            /\ result.value = ClauseValue(query_string.lex, i)
            /\ result.name = variable_by_name[
                                lower(query_string.lex[i].text)].name

\* '(price > 5 or make = saab) ...' with make a choice_queryset variable
\* that has no saab
C5_Witness ==
    /\ op = "parse"
    /\ Len(query_string.lex) >= 9
    /\ SubSeq(query_string.lex, 1, 9) =
         <<LParen, Word("price"), Op(">"), IntNum("5", ""), Word("or"),
           Word("make"), Op("="), Word("saab"), RParen>>
    /\ UnknownValue(result)
    /\ result.name = "make"
    /\ result.value = PyStr("saab")

\* ------------------------------------------------------------------------
\* Errors
\* ------------------------------------------------------------------------
\* the errors Query.parse declares: QueryException, and the assertion of
\* freetext_as_q when no variable is free-text
DeclaredError(res) ==
    /\ res.r = "raise"
    /\ \/ res.exc = "QueryException"
       \/ /\ res.exc = "AssertionError"
          /\ res.msg = "any(v.freetext for v in self.variables)"

\* C6: Query.parse either returns a predicate or fails with one of the
\* declared query errors; no other failure reaches the caller.
C6_ErrorsAreDeclared ==
    op = "parse" => (result.r = "q" \/ DeclaredError(result))

\* ------------------------------------------------------------------------
\* Free text
\* ------------------------------------------------------------------------
IsFreeText ==
    /\ op = "parse"
    /\ Len(query_string.lex) = 1
    /\ query_string.lex[1].tok = "quoted"

Contains(variable, text) ==
    Q_kw(<<variable.attr, op_to_q_op(variable, ":")>>, PyStr(text))

RECURSIVE OrOf(_)
OrOf(qs) ==
    IF Len(qs) = 1 THEN qs[1]
    ELSE Q_or(OrOf(SubSeq(qs, 1, Len(qs) - 1)), qs[Len(qs)])

FreeTextFlagged == SelectSeq(variables, LAMBDA v : v.freetext)

\* C7: with at least one free-text field, a bare quoted string compiles to
\* the OR of one contains predicate per free-text field, exactly those
\* fields, each with its own mapping of ':', also when a free-text field has
\* no attribute path.
C7_FreeTextOverFlagged ==
    (IsFreeText /\ FreeTextFlagged # <<>>)
    => /\ result.r = "q"
       /\ (\A i \in 1..Len(FreeTextFlagged) : FreeTextFlagged[i].attr # None)
          => result.q = OrOf([i \in 1..Len(FreeTextFlagged) |->
                                Contains(FreeTextFlagged[i],
                                         query_string.lex[1].text)])

\* ------------------------------------------------------------------------
\* Duplicate names
\* ------------------------------------------------------------------------
\* C8: no Query is ever constructed from variables two of which have names
\* equal up to letter case.
C8_NoDuplicateNames ==
    op # "class"
    => \A i, j \in 1..Len(variables) :
          i # j => lower(variables[i].name) # lower(variables[j].name)

\* ------------------------------------------------------------------------
\* Structured input
\* ------------------------------------------------------------------------
\* Python equality of the values in a predicate: a StringValue equals the
\* unicode of the same text, True equals 1 and False equals 0
NormValue(v) ==
    IF v.t = "StringValue" THEN PyStr(v.v)
    ELSE IF v.t = "bool" THEN PyInt(IF v.v = "True" THEN "1" ELSE "0")
    ELSE v

RECURSIVE NormQ(_)
NormQ(q) ==
    CASE q.q = "Q" -> Q_kw(q.key, NormValue(q.value))
      [] q.q = "not" -> Q_not(NormQ(q.arg))
      [] q.q = "and" -> Q_and(NormQ(q.left), NormQ(q.right))
      [] q.q = "or" -> Q_or(NormQ(q.left), NormQ(q.right))
      [] OTHER -> q

\* the predicate of a variable for an operator and a literal value
LiteralQ(variable, o, v) ==
    IF variable.attr = None THEN Q_empty
    ELSE LET base == Q_kw(<<variable.attr,
                            op_to_q_op(variable,
                                       IF o = "!=" THEN "="
                                       ELSE IF o = "!:" THEN ":" ELSE o)>>,
                          v)
         IN IF o \in {"!=", "!:"} THEN Q_not(base) ELSE base

RECURSIVE AndOf(_)
AndOf(qs) ==
    IF qs = <<>> THEN Q_empty
    ELSE IF Len(qs) = 1 THEN qs[1]
    ELSE Q_and(AndOf(SubSeq(qs, 1, Len(qs) - 1)), qs[Len(qs)])

\* the fields of the form that carry a value, in order
SetFields == SelectSeq(form_fields(Self), LAMBDA n : is_set(request.values[n]))

HasTerm == has_freetext_field(Self) /\ is_set(request.term)

ExpectedOfRequest ==
    AndOf([i \in 1..Len(SetFields) |->
             LiteralQ(variable_by_name[SetFields[i]],
                      variable_by_name[SetFields[i]].gui_op,
                      request.values[SetFields[i]])]
          \o (IF HasTerm
              THEN <<OrOf([i \in 1..Len(FreeTextFlagged) |->
                             LiteralQ(FreeTextFlagged[i], ":", request.term)])>>
              ELSE <<>>))

\* a valid form without advanced query; a boolean field holds a boolean
IsStructured ==
    /\ op = "request_to_q"
    /\ request.valid
    /\ strip(request_data_get_query(request)) = EmptyString
    /\ \A i \in 1..Len(SetFields) :
          variable_by_name[SetFields[i]].value_to_q = "boolean_value_to_q"
          => request.values[SetFields[i]].t = "bool"

\* C9: for a valid structured input without advanced query,
\* Query.parse(request_to_query_string(...)) equals the AND of each set
\* field's predicate for its default operator and the value as a literal,
\* plus the OR of the contains predicates of the free-text fields when a
\* free-text value is present; for every value, also the text 'null' or a
\* field's name; no values give the match-everything predicate.
C9_FormatThenCompile ==
    IsStructured
    => (result.r = "q" /\ NormQ(result.q) = NormQ(ExpectedOfRequest))

\* ------------------------------------------------------------------------
\* Quoting
\* ------------------------------------------------------------------------
HasDefaultPredicate ==
    /\ IsStatement
    /\ lookup_hit(Self, StmtName)
    /\ StmtVariable.value_to_q = "default_value_to_q"
    /\ StmtVariable.attr # None

\* C10: in a binary statement, an unquoted identifier value that matches a
\* registered name up to letter case is compiled as a reference to that
\* field's attribute, and a quoted value is always compiled as a literal
\* string under the stated operator, whatever its text.
C10_QuotingDecides ==
    /\ (HasDefaultPredicate /\ StmtValue.tok = "word"
            /\ DeclaredUpToCase(StmtValue.text))
       => \E i \in 1..Len(variables) :
            /\ lower(variables[i].name) = lower(StmtValue.text)
            /\ result = Return(LiteralQ(StmtVariable, StmtOp,
                                        F(variables[i].attr)))
    /\ (HasDefaultPredicate /\ StmtValue.tok = "quoted")
       => result = Return(LiteralQ(StmtVariable, StmtOp,
                                   StringValue(StmtValue.text)))


\* ------------------------------------------------------------------------
\* Invalid structured input
\* ------------------------------------------------------------------------
IsRequestCall == op \in {"request_to_query_string", "request_to_q"}

\* the advanced query parameter is absent or holds white space only
BlankAdvanced == request.query = NoParam \/ request.query.lex = <<>>

\* the request that sets no filter at all: no advanced query, a valid form
\* with every field and the free-text field empty
NoFilterRequest ==
    [ query |-> NoParam, valid |-> TRUE,
      values |-> [n \in Range(form_fields(Self)) |-> PyNone],
      term |-> PyNone ]

\* C11: when the request carries no non-blank advanced query string and
\* the form is invalid, request_to_query_string returns the empty string
\* and request_to_q returns the match-everything predicate without raising,
\* which is what both return for a request that sets no filter; a non-blank
\* advanced query string is returned unchanged, whether or not the form is
\* valid
C11_InvalidFormIsNoFilter ==
    IsRequestCall
    => /\ (BlankAdvanced /\ ~request.valid)
          => /\ query_string = QueryString(FALSE, <<>>)
             /\ query_string = request_to_query_string(Self, NoFilterRequest)
             /\ op = "request_to_q"
                => /\ result = Return(Q_empty)
                   /\ result = request_to_q(Self, NoFilterRequest)
       /\ ~BlankAdvanced => query_string = request.query

\* an invalid form with a field set, and a free-text value, next to an
\* advanced query of white space only, was turned into a predicate
C11_Witness ==
    /\ op = "request_to_q"
    /\ request.query = QueryString(TRUE, <<>>)
    /\ ~request.valid
    /\ \E n \in DOMAIN request.values : request.values[n] = PyInt("5")
    /\ request.term = PyStr("volvo")
    /\ result = Return(Q_empty)

====
